---- MODULE Spec2Model ----
(***************************************************************************)
(* Model of the group executor of npm-run-all-next: lib/run-tasks.js       *)
(* (runTasks, attemptRun, abort, done, next) on top of lib/run-task.js     *)
(* (runTask: one child process with an abort handle).                      *)
(*                                                                         *)
(* JavaScript runs to completion: a child's 'close' / 'error' event is a   *)
(* task, and every promise reaction it causes is a job of the FIFO         *)
(* microtask queue `jobs`, drained before the next event is delivered.     *)
(* One action of the model is one iteration of the start loop or one event *)
(* callback together with the promise jobs it causes, run in queue order.  *)
(* Wall-clock fields (durationMs) and the output streams are left out of   *)
(* this module's state.                                                    *)
(***************************************************************************)
EXTENDS Integers, Sequences, FiniteSets, TLC

\* ---------------------------------------------------------------- bounds
MaxTasks == 3
MaxRetry == 1
MaxCap == 2
\* groups whose output is followed: tasks, and chunks printed by one attempt
MaxOutTasks == 2
MaxChunks == 1
\* command lines: groups, and patterns of one group
MaxGroups == 2
MaxPatterns == 2
\* command lines given to the parser: arguments
MaxArgs == 3
\* calls of matchTasks: patterns given
MaxGiven == 3
\* calls of printSummaryTable: results given
MaxRows == 2

\* ------------------------------------------------------------- constants
\* script names, in the order in which a task list first uses them
NameSeq == <<"a", "b", "c", "d">>
Names == {NameSeq[k] : k \in 1..Len(NameSeq)}
\* JavaScript's undefined and null in a code field
Undefined == -1
Null == -2
\* exit code reported for an aborted child
Killed == 130
\* exit statuses a child can end with by itself
ExitCodes == {0, 1}

VARIABLES
  call,         \* a call of the library function npmRunAll: its arguments, how far it got
  cli,          \* a parse of a command line: the arguments and what parseCLIArgs gave
  matching,     \* a call of matchTasks: the manifest's scripts, the patterns, the tasks found
  printed,      \* a call of printSummaryTable: the results given and the lines returned
  pipe,         \* the command-line run: argv, the promise chain of the groups, the exit
  tasks,        \* the task names given to runTasks
  options,      \* parallel, race, continueOnError, maxParallel, retry, aggregateOutput
  outputLen,    \* number of chunks a script prints before it exits by itself
  pc,           \* "start" while runTasks' own code runs, then "run"
  loopLeft,     \* iterations of the start loop still to run
  results,      \* let results: one record per task
  arrayId,      \* identity of the array bound to results: results.map calls so far
  queue,        \* const queue: indices not yet started
  promises,     \* const promises: indices of the attemptRun promises in flight
  error,        \* let error
  aborted,      \* let aborted
  attempt,      \* attemptRun: loop variable, per task
  lastAttempt,  \* attemptRun: lastAttempt, per task
  lastResult,   \* attemptRun: lastResult.code, per task
  pstate,       \* state of the promise returned by attemptRun, per task
  outcome,      \* how the attempt loop of a task was left
  child,        \* runTask: the child of the task's latest attempt
  spawned,      \* number of spawn() calls made for the task
  wrote,        \* chunks printed so far by the task's latest child
  writer,       \* next(): the MemoryStream of the task, as the chunks it holds
  destroyed,    \* whether writer.destroy() was called for the task
  sink,         \* options.stdout of the group: the chunks written to it
  exitedZero,   \* a child of the task has ended by itself with exit status 0
  jobs,         \* the microtask queue (empty between events)
  waiting,      \* one entry per Promise.allSettled call: indices awaited
  settled,      \* state of the promise returned by runTasks
  settledWith,  \* the results list the promise was settled with
  doneCount,    \* number of calls of done()
  firstExhausted, \* index of the first task whose attempt loop ran out, or 0
  abortCalls,   \* number of calls of abort()
  raceAborts,   \* number of calls of abort() from the race branch
  atAbort,      \* indices in flight at the first call of abort()
  lateSpawns    \* number of spawn() calls made while aborted was true

vars == <<call, cli, matching, printed, pipe, tasks, options, outputLen, pc, loopLeft, results, arrayId, queue, promises, error,
          aborted, attempt, lastAttempt, lastResult, pstate, outcome, child,
          spawned, wrote, writer, destroyed, sink,
          exitedZero, jobs, waiting, settled, settledWith, doneCount,
          firstExhausted, abortCalls, raceAborts, atAbort, lateSpawns>>

N == Len(tasks)
Idx == 1..N

\* ------------------------------------------------------ helper functions
RECURSIVE SeqsUpTo(_, _)
SeqsUpTo(S, n) ==
  IF n = 0 THEN {<<>>}
  ELSE LET Shorter == SeqsUpTo(S, n - 1)
       IN Shorter \cup {Append(q, x) : q \in {r \in Shorter : Len(r) = n - 1}, x \in S}

\* remove() that leaves the array as it is
RemoveIdxKeep(seq, x) == seq

\* remove(array, x): the element x is spliced out of the array
RemoveIdx(seq, x) == SelectSeq(seq, LAMBDA y : y # x)

Range(seq) == {seq[j] : j \in 1..Len(seq)}

\* the task lists given to runTasks: all scripts different, or one script
\* listed twice; lists are taken up to the renaming of scripts, every name
\* being the first unused one of NameSeq where it first occurs
TaskLists ==
  {t \in SeqsUpTo(Names, MaxTasks) :
     /\ \A j \in 1..Len(t) :
          \E k \in 1..(Cardinality({t[m] : m \in 1..(j - 1)}) + 1) : t[j] = NameSeq[k]
     /\ Cardinality(Range(t)) + 1 >= Len(t)}

\* !code
Falsy(code) == code \in {0, Undefined, Null}

NoError == [set |-> FALSE, names |-> <<>>, joined |-> FALSE, code |-> Undefined, results |-> 0]

\* new NpmRunAllError({name, code}, results): the cause's name and code and
\* the results array it was given; the array is shared with the runner, not
\* copied, so the field holds the identity of the array
NpmRunAllError(names, joined, code, allResults) ==
  [set |-> TRUE, names |-> names, joined |-> joined, code |-> code, results |-> allResults]

\* a promise job: the reaction `type` of task i (or of allSettled call k),
\* with the value or the error the promise was settled with
Job(type, i, k, code, retries, err) ==
  [type |-> type, i |-> i, k |-> k, code |-> code, retries |-> retries, err |-> err]

\* the program state as one record, for the operators below
Cur ==
  [results |-> results, arrayId |-> arrayId, queue |-> queue, promises |-> promises, error |-> error,
   aborted |-> aborted, attempt |-> attempt, lastAttempt |-> lastAttempt,
   lastResult |-> lastResult, pstate |-> pstate, outcome |-> outcome,
   child |-> child, spawned |-> spawned, wrote |-> wrote, writer |-> writer,
   destroyed |-> destroyed, sink |-> sink,
   exitedZero |-> exitedZero, jobs |-> jobs, waiting |-> waiting,
   settled |-> settled, settledWith |-> settledWith, doneCount |-> doneCount,
   firstExhausted |-> firstExhausted, abortCalls |-> abortCalls, raceAborts |-> raceAborts,
   atAbort |-> atAbort, lateSpawns |-> lateSpawns]

Becomes(next_state) ==
  \E S \in {next_state} :
  /\ results' = S.results
  /\ arrayId' = S.arrayId
  /\ queue' = S.queue
  /\ promises' = S.promises
  /\ error' = S.error
  /\ aborted' = S.aborted
  /\ attempt' = S.attempt
  /\ lastAttempt' = S.lastAttempt
  /\ lastResult' = S.lastResult
  /\ pstate' = S.pstate
  /\ outcome' = S.outcome
  /\ child' = S.child
  /\ spawned' = S.spawned
  /\ wrote' = S.wrote
  /\ writer' = S.writer
  /\ destroyed' = S.destroyed
  /\ sink' = S.sink
  /\ exitedZero' = S.exitedZero
  /\ jobs' = S.jobs
  /\ waiting' = S.waiting
  /\ settled' = S.settled
  /\ settledWith' = S.settledWith
  /\ doneCount' = S.doneCount
  /\ firstExhausted' = S.firstExhausted
  /\ abortCalls' = S.abortCalls
  /\ raceAborts' = S.raceAborts
  /\ atAbort' = S.atAbort
  /\ lateSpawns' = S.lateSpawns

\* ------------------------------------------------- run-task.js: runTask
\* cp = spawn(...): a live child with a non-null handle, not killed so far
runTask(S, i) ==
  [S EXCEPT !.child[i] = [alive |-> TRUE, cp |-> TRUE, wasAborted |-> FALSE, kills |-> 0],
            !.spawned[i] = @ + 1,
            !.wrote[i] = 0,
            !.lateSpawns = IF S.aborted THEN @ + 1 ELSE @]

\* an abort handle that kills at every call, whether or not it holds a child
childAbortAlways(S, i) ==
  [S EXCEPT !.child[i].wasAborted = TRUE, !.child[i].cp = FALSE, !.child[i].kills = @ + 1]

\* promise.abort of the task's latest runTask promise: if (cp != null)
\* { wasAborted = true; killTree(cp.pid, ...); cp = null }; kills counts the
\* calls of killTree for the child
childAbort(S, i) ==
  IF S.child[i].cp
  THEN [S EXCEPT !.child[i].wasAborted = TRUE, !.child[i].cp = FALSE, !.child[i].kills = @ + 1]
  ELSE S

\* the code the 'close' handler resolves with
closeCode(wasAborted, code) == IF wasAborted THEN Killed ELSE code

\* the code attemptRun's catch block derives from a spawn error, whose
\* err.code is a string such as 'ENOENT'
errorCode == 1

\* ------------------------------------- run-tasks.js: promise settlement
\* reactions of p in registration order: the handler given in next(), then
\* the element reactions of every Promise.allSettled that awaits p
ElemJobs(S, i) ==
  LET ks == SelectSeq([k \in 1..Len(S.waiting) |-> k], LAMBDA k : i \in S.waiting[k])
  IN [n \in 1..Len(ks) |-> Job("elem", i, ks[n], Undefined, 0, NoError)]

\* a fulfilment that counts the attempts made in place of the retries
resolveTaskAttempts(S, i, code, retries) ==
  [S EXCEPT !.pstate[i] = "fulfilled",
            !.jobs = @ \o <<Job("then", i, 0, code, retries + 1, NoError)>> \o ElemJobs(S, i)]

\* resolve({ name, code, retries, durationMs }) in attemptRun
resolveTask(S, i, code, retries) ==
  [S EXCEPT !.pstate[i] = "fulfilled",
            !.jobs = @ \o <<Job("then", i, 0, code, retries, NoError)>> \o ElemJobs(S, i)]

rejectTask(S, i, err) ==
  [S EXCEPT !.pstate[i] = "rejected",
            !.jobs = @ \o <<Job("pass", i, 0, err.code, 0, err)>> \o ElemJobs(S, i)]

\* code ?? (signal ? 128 + convert(signal) : undefined); runTask's result
\* and the catch block of attemptRun never carry a signal name
finalCodeOf(code) == IF code \in {Undefined, Null} THEN Undefined ELSE code

\* results.map((r) => (r.name === name ? {...r, code, retries} : r))
mapByName(res, name, code, retries) ==
  [j \in 1..Len(res) |->
     IF res[j].name = name THEN [res[j] EXCEPT !.code = code, !.retries = retries]
     ELSE res[j]]

\* attemptRun, after the for loop
afterLoop(S, i) ==
  IF options.continueOnError
  THEN resolveTask(S, i, S.lastResult[i], S.lastAttempt[i])
  ELSE LET fc == finalCodeOf(S.lastResult[i])
           S1 == [S EXCEPT !.results = mapByName(@, tasks[i], fc, S.lastAttempt[i]),
                           !.arrayId = @ + 1]
       IN rejectTask(S1, i, NpmRunAllError(<<tasks[i]>>, FALSE, fc, S1.arrayId))

\* attemptRun, one loop iteration up to the await
loopIter(S, i) ==
  LET S1 == [runTask(S, i) EXCEPT !.lastAttempt[i] = S.attempt[i]]
  IN IF S1.aborted
     THEN afterLoop([childAbort(S1, i) EXCEPT !.lastAttempt[i] = @ - 1,
                                              !.outcome[i] = "abortedBeforeRun"], i)
     ELSE [S1 EXCEPT !.outcome[i] = "awaiting"]

\* the loop bound written as attempt < maxRetries
mayRetryStrict(att, maxRetries) == att + 1 < maxRetries

\* for (...; attempt <= maxRetries; attempt++): is there another iteration
mayRetry(att, maxRetries) == att + 1 <= maxRetries

\* the success test left out of the loop
succeededNever(exitCode) == FALSE

\* if (exitCode === 0)
succeeded(exitCode) == exitCode = 0

\* an attempt loop that gives up at the first failure
afterAwaitOnce(S, i, code) ==
  LET S1 == [S EXCEPT !.lastResult[i] = code,
                      !.results[i].retries = S.attempt[i]]
  IN IF S1.aborted
     THEN afterLoop([childAbort(S1, i) EXCEPT !.outcome[i] = "abortedAfterRun"], i)
     ELSE IF succeeded(code)
     THEN resolveTask([S1 EXCEPT !.outcome[i] = "succeeded"], i, 0, S.attempt[i])
     ELSE afterLoop([S1 EXCEPT !.outcome[i] = "exhausted",
                               !.firstExhausted = IF @ = 0 THEN i ELSE @], i)

\* attemptRun, from the await to the next await or to the settlement.  When
\* another attempt is started, lastResult is assigned again (line 120 or 122)
\* before anything reads it, so the failed attempt's code is not kept across
\* the await of that attempt.
afterAwait(S, i, code) ==
  LET S1 == [S EXCEPT !.lastResult[i] = code,
                      !.results[i].retries = S.attempt[i]]
  IN IF S1.aborted
     THEN afterLoop([childAbort(S1, i) EXCEPT !.outcome[i] = "abortedAfterRun"], i)
     ELSE IF succeeded(code)
     THEN resolveTask([S1 EXCEPT !.outcome[i] = "succeeded"], i, 0, S.attempt[i])
     ELSE IF mayRetry(S.attempt[i], options.retry)
     THEN [loopIter([S1 EXCEPT !.attempt[i] = @ + 1], i) EXCEPT !.lastResult[i] = Undefined]
     ELSE afterLoop([S1 EXCEPT !.outcome[i] = "exhausted",
                               !.firstExhausted = IF @ = 0 THEN i ELSE @], i)

\* ------------------------------------------- run-tasks.js: done, abort
\* done() that leaves error.results as the error was made
withResultsKept(err, array) == err

\* if (error.results) error.results = results
withResults(err, array) == [err EXCEPT !.results = array]

done(S) ==
  LET S1 == [S EXCEPT !.doneCount = @ + 1]
  IN IF S1.error.set
     THEN LET e == withResults(S1.error, S1.arrayId)
          IN IF S1.settled = "pending"
             THEN [S1 EXCEPT !.error = e, !.settled = "rejected", !.settledWith = S1.results]
             ELSE [S1 EXCEPT !.error = e]
     ELSE IF S1.settled = "pending"
          THEN [S1 EXCEPT !.settled = "resolved", !.settledWith = S1.results]
          ELSE S1

\* abort() that sets the flag without calling p.abort()
abortAllNone(S, ps) == S

\* what toString() of a destroyed MemoryStream gives for task i: left open
\* (the stream is not part of this repository), one block of its own
Destroyed(i) == <<[task |-> i, attempt |-> Undefined, k |-> 0]>>

\* writer.destroy(): the stream takes no more writes
destroyWriter(S, i) ==
  [S EXCEPT !.destroyed[i] = TRUE, !.writer[i] = Destroyed(i)]

\* the stream the children of a task are given without the redirection
useWriterNever(aggregateOutput) == FALSE

\* if (opts.aggregateOutput && opts.stdout): the children of the task write
\* to a MemoryStream of its own
useWriter(aggregateOutput) == aggregateOutput

\* p.abort as replaced in next(): if (writer) writer.destroy(); origAbort()
pAbort(S, i) ==
  childAbort(IF useWriter(options.aggregateOutput) THEN destroyWriter(S, i) ELSE S, i)

RECURSIVE abortAll(_, _)
abortAll(S, ps) ==
  IF ps = <<>> THEN S ELSE abortAll(pAbort(S, Head(ps)), Tail(ps))

\* abort() that flips the flag at every call
raisedFlip(flag) == ~flag

\* aborted = true
raised(flag) == TRUE

abort(S, fromRace) ==
  LET S1 == [S EXCEPT !.aborted = raised(@),
                      !.abortCalls = @ + 1,
                      !.raceAborts = IF fromRace THEN @ + 1 ELSE @,
                      !.atAbort = IF S.abortCalls = 0 THEN Range(S.promises) ELSE @]
  IN IF S1.promises = <<>>
     THEN done(S1)
     ELSE LET S2 == abortAll(S1, S1.promises)
              k == Len(S2.waiting) + 1
              already == SelectSeq(S2.promises, LAMBDA i : S2.pstate[i] # "pending")
          IN [S2 EXCEPT !.waiting = Append(@, Range(S2.promises)),
                        !.jobs = @ \o [n \in 1..Len(already) |->
                                         Job("elem", already[n], k, Undefined, 0, NoError)]]

\* ------------------------------------------------- run-tasks.js: next
\* next() that calls done() as soon as the queue is empty
noneInFlightAlways(ps) == TRUE

\* if (promises.length === 0)
noneInFlight(ps) == ps = <<>>

\* next() that takes the task at the back of the queue
nextFromBack(S) ==
  IF S.queue = <<>>
  THEN IF noneInFlight(S.promises) THEN done(S) ELSE S
  ELSE LET i == S.queue[Len(S.queue)]
           S1 == [S EXCEPT !.queue = SubSeq(@, 1, Len(@) - 1), !.pstate[i] = "pending"]
           S2 == loopIter(S1, i)
       IN [S2 EXCEPT !.promises = Append(@, i)]

\* const { name, index } = queue.shift(), attemptRun, promises.push(p)
next(S) ==
  IF S.queue = <<>>
  THEN IF noneInFlight(S.promises) THEN done(S) ELSE S
  ELSE LET i == Head(S.queue)
           S1 == [S EXCEPT !.queue = Tail(@), !.pstate[i] = "pending"]
           S2 == loopIter(S1, i)
       IN [S2 EXCEPT !.promises = Append(@, i)]

\* if (writer && options.stdout) options.stdout.write(writer.toString())
flush(out, held) ==
  IF useWriter(options.aggregateOutput) THEN out \o held ELSE out

\* results.push(...) in place of the assignment to the task's slot
storeResultPush(res, index, name, code, retries) ==
  Append(res, [name |-> name, code |-> code, retries |-> retries])

\* results[index] = { name, code: result.code, retries: result.retries }
storeResult(res, index, name, code, retries) ==
  [res EXCEPT ![index] = [name |-> name, code |-> code, retries |-> retries]]

\* the race branch left out of the handler
raceWonNever(race, code) == FALSE

\* if (options.race && !result.code)
raceWon(race, code) == race /\ Falsy(code)

\* the fulfilment handler given to p.then in next()
onFulfilled(S, i, code, retries) ==
  LET S1 == [S EXCEPT !.promises = RemoveIdx(@, i),
                      !.sink = flush(@, S.writer[i]),
                      !.results = storeResult(@, i, tasks[i], code, retries)]
  IN IF raceWon(options.race, code)
     THEN abort(S1, TRUE)
     ELSE IF code # 0
     THEN LET failures == SelectSeq(S1.results,
                            LAMBDA r : ~Falsy(r.code) /\ r.code # Killed)
              e == IF S1.error.set
                   THEN NpmRunAllError([n \in 1..Len(failures) |-> failures[n].name],
                                       TRUE, code, S1.arrayId)
                   ELSE NpmRunAllError(<<tasks[i]>>, FALSE, code, S1.arrayId)
              S2 == [S1 EXCEPT !.error = e]
          IN IF ~options.continueOnError THEN abort(S2, FALSE) ELSE next(S2)
     ELSE next(S1)

\* the rejection handler given to .catch in next()
onRejected(S, i, err) ==
  LET S1 == [S EXCEPT !.promises = RemoveIdx(@, i)]
  IN IF S1.aborted
     THEN S1
     ELSE LET S2 == [S1 EXCEPT !.error = err]
          IN IF ~options.continueOnError \/ options.race
             THEN abort(S2, FALSE)
             ELSE next(S2)

\* ------------------------------------------------------------ the system
\* npmRunAll: race needs parallel, and a sequential group runs with
\* maxParallel 1
Options ==
  {o \in [parallel : BOOLEAN, race : BOOLEAN, continueOnError : BOOLEAN,
          maxParallel : 0..MaxCap, retry : 0..MaxRetry, aggregateOutput : BOOLEAN] :
     /\ ~o.parallel => (~o.race /\ ~o.aggregateOutput /\ o.maxParallel = 1)}

\* the start loop ignoring maxParallel
initialAll == Len(tasks)

\* const initial = typeof max === 'number' && max > 0 ? Math.min(tasks.length, max) : tasks.length
initial ==
  IF options.maxParallel > 0
  THEN (IF N < options.maxParallel THEN N ELSE options.maxParallel)
  ELSE N

\* the state when runTasks' promise executor has made its declarations
declared(ts) ==
  [results |-> [i \in 1..Len(ts) |-> [name |-> ts[i], code |-> Undefined, retries |-> 0]],
   arrayId |-> 0,
   queue |-> [i \in 1..Len(ts) |-> i],
   promises |-> <<>>,
   error |-> NoError,
   aborted |-> FALSE,
   attempt |-> [i \in 1..Len(ts) |-> 0],
   lastAttempt |-> [i \in 1..Len(ts) |-> 0],
   lastResult |-> [i \in 1..Len(ts) |-> Undefined],
   pstate |-> [i \in 1..Len(ts) |-> "none"],
   outcome |-> [i \in 1..Len(ts) |-> "queued"],
   child |-> [i \in 1..Len(ts) |-> [alive |-> FALSE, cp |-> FALSE, wasAborted |-> FALSE, kills |-> 0]],
   spawned |-> [i \in 1..Len(ts) |-> 0],
   wrote |-> [i \in 1..Len(ts) |-> 0],
   writer |-> [i \in 1..Len(ts) |-> <<>>],
   destroyed |-> [i \in 1..Len(ts) |-> FALSE],
   sink |-> <<>>,
   exitedZero |-> [i \in 1..Len(ts) |-> FALSE],
   jobs |-> <<>>,
   waiting |-> <<>>,
   settled |-> "pending",
   settledWith |-> <<>>,
   doneCount |-> 0,
   firstExhausted |-> 0,
   abortCalls |-> 0,
   raceAborts |-> 0,
   atAbort |-> {},
   lateSpawns |-> 0]

Fresh ==
  /\ results = declared(tasks).results
  /\ arrayId = declared(tasks).arrayId
  /\ queue = declared(tasks).queue
  /\ promises = declared(tasks).promises
  /\ error = declared(tasks).error
  /\ aborted = declared(tasks).aborted
  /\ attempt = declared(tasks).attempt
  /\ lastAttempt = declared(tasks).lastAttempt
  /\ lastResult = declared(tasks).lastResult
  /\ pstate = declared(tasks).pstate
  /\ outcome = declared(tasks).outcome
  /\ child = declared(tasks).child
  /\ spawned = declared(tasks).spawned
  /\ wrote = declared(tasks).wrote
  /\ writer = declared(tasks).writer
  /\ destroyed = declared(tasks).destroyed
  /\ sink = declared(tasks).sink
  /\ exitedZero = declared(tasks).exitedZero
  /\ jobs = declared(tasks).jobs
  /\ waiting = declared(tasks).waiting
  /\ settled = declared(tasks).settled
  /\ settledWith = declared(tasks).settledWith
  /\ doneCount = declared(tasks).doneCount
  /\ firstExhausted = declared(tasks).firstExhausted
  /\ abortCalls = declared(tasks).abortCalls
  /\ raceAborts = declared(tasks).raceAborts
  /\ atAbort = declared(tasks).atAbort
  /\ lateSpawns = declared(tasks).lateSpawns

Declared ==
  /\ pc = "start"
  /\ loopLeft = initial
  /\ Fresh

\* no call of the library function is modelled
NoCall == [stage |-> "none"]

\* no parse of a command line is modelled
NoCli == [stage |-> "none"]

\* no call of matchTasks is modelled
NoMatching == [stage |-> "none"]

\* no call of printSummaryTable is modelled
NoTable == [stage |-> "none"]

\* a call of runTasks from the Node API: no command line
NoPipe ==
  [groups |-> <<>>,
   argv |-> [continueOnError |-> FALSE, race |-> FALSE, maxParallel |-> 0, retry |-> 0,
             aggregateOutput |-> FALSE, summary |-> FALSE],
   gi |-> 0, chain |-> "none", error |-> NoError, exit |-> Undefined,
   strays |-> 0, failed |-> FALSE, allOk |-> TRUE, summaries |-> 0]

\* groups of scripts that print nothing
Init ==
  /\ call = NoCall
  /\ cli = NoCli
  /\ matching = NoMatching
  /\ printed = NoTable
  /\ pipe = NoPipe
  /\ tasks \in TaskLists
  /\ options \in {o \in Options : ~o.aggregateOutput}
  /\ outputLen = 0
  /\ Declared

\* if (!Array.isArray(tasks) || tasks.length === 0) return resolve([])
RunEmpty ==
  /\ pc = "start"
  /\ N = 0
  /\ pc' = "run"
  /\ settled' = "resolved"
  /\ settledWith' = <<>>
  /\ UNCHANGED <<call, cli, matching, printed, pipe, tasks, options, outputLen, loopLeft, results, arrayId,
                 queue, promises, error,
                 aborted, attempt, lastAttempt, lastResult, pstate, outcome,
                 child, spawned, wrote, writer, destroyed, sink,
                 exitedZero, jobs, waiting, doneCount, firstExhausted,
                 abortCalls, raceAborts, atAbort, lateSpawns>>

\* a rejected p passes through p.then(...), which has no rejection handler:
\* the handler given to .catch runs one job later
passThrough(S, job) ==
  [S EXCEPT !.jobs = Append(@, [job EXCEPT !.type = "catch"])]

\* Promise.allSettled: one awaited promise has settled; when it was the last
\* one, the reaction .then(() => done()) is queued
allSettledElem(S, job) ==
  LET rest == S.waiting[job.k] \ {job.i}
  IN [S EXCEPT !.waiting[job.k] = rest,
               !.jobs = IF rest = {}
                        THEN Append(@, Job("done", 0, job.k, Undefined, 0, NoError))
                        ELSE @]

\* one promise job: the head of the microtask queue
runJob(S) ==
  LET job == Head(S.jobs)
      S1 == [S EXCEPT !.jobs = Tail(@)]
  IN CASE job.type = "resume" -> afterAwait(S1, job.i, job.code)
       [] job.type = "then" -> onFulfilled(S1, job.i, job.code, job.retries)
       [] job.type = "pass" -> passThrough(S1, job)
       [] job.type = "catch" -> onRejected(S1, job.i, job.err)
       [] job.type = "elem" -> allSettledElem(S1, job)
       [] job.type = "done" -> done(S1)

\* the microtask checkpoint: jobs run in FIFO order until none is left
RECURSIVE drain(_)
drain(S) == IF S.jobs = <<>> THEN S ELSE drain(runJob(S))

\* for (let i = 0; i < initial; i++) next(); the promise jobs run when the
\* loop has ended
LoopNext ==
  /\ pc = "start"
  /\ loopLeft > 0
  /\ Becomes(IF loopLeft = 1 THEN drain(next(Cur)) ELSE next(Cur))
  /\ loopLeft' = loopLeft - 1
  /\ pc' = IF loopLeft = 1 THEN "run" ELSE "start"
  /\ UNCHANGED <<call, cli, matching, printed, pipe, tasks, options, outputLen>>

\* cp.on('close'): the child of task i ends, a script that ends by itself
\* having printed its chunks; code is its exit status, or Null when a signal
\* ended it.  The callback resolves the runTask promise
\* and the promise jobs this causes run before the next event.
ChildClose(i, code) ==
  /\ pc = "run"
  /\ child[i].alive
  /\ child[i].wasAborted \/ wrote[i] = outputLen
  /\ LET c == closeCode(child[i].wasAborted, code)
         S1 == [Cur EXCEPT !.child[i].alive = FALSE, !.child[i].cp = FALSE,
                           !.exitedZero[i] = @ \/ c = 0]
     IN Becomes(IF outcome[i] = "awaiting"
                THEN drain([S1 EXCEPT !.jobs = Append(@, Job("resume", i, 0, c, 0, NoError))])
                ELSE S1)
  /\ UNCHANGED <<call, cli, matching, printed, pipe, tasks, options, outputLen, pc, loopLeft>>

\* cp.on('error'): the spawn of task i's child failed; Node reports it on
\* the tick after spawn(), before any other event can abort the task
ChildError(i) ==
  /\ pc = "run"
  /\ child[i].alive
  /\ child[i].cp
  /\ outcome[i] = "awaiting"
  /\ wrote[i] = 0
  /\ Becomes(drain([Cur EXCEPT !.child[i].alive = FALSE, !.child[i].cp = FALSE,
                               !.jobs = Append(@, Job("resume", i, 0, errorCode, 0, NoError))]))
  /\ UNCHANGED <<call, cli, matching, printed, pipe, tasks, options, outputLen, pc, loopLeft>>

\* cp.stdout.pipe(stdout, { end: false }): the child of task i prints its
\* next chunk, into the task's MemoryStream or straight to options.stdout
ChildWrite(i) ==
  /\ pc = "run"
  /\ child[i].alive
  /\ wrote[i] < outputLen
  /\ useWriter(options.aggregateOutput) => ~destroyed[i]
  /\ LET chunk == [task |-> i, attempt |-> attempt[i], k |-> wrote[i] + 1]
     IN Becomes(IF useWriter(options.aggregateOutput)
                THEN [Cur EXCEPT !.wrote[i] = @ + 1, !.writer[i] = Append(@, chunk)]
                ELSE [Cur EXCEPT !.wrote[i] = @ + 1, !.sink = Append(@, chunk)])
  /\ UNCHANGED <<call, cli, matching, printed, pipe, tasks, options, outputLen, pc, loopLeft>>

Next ==
  \/ RunEmpty
  \/ LoopNext
  \/ \E i \in Idx : \E code \in ExitCodes \cup {Null} : ChildClose(i, code)
  \/ \E i \in Idx : ChildError(i)

Spec == Init /\ [][Next]_vars

\* parallel groups with aggregateOutput whose scripts print; the scripts are
\* all different (no label or header is printed, so the output does not
\* depend on a script's name)
OutTaskLists ==
  {t \in TaskLists : Len(t) <= MaxOutTasks /\ Cardinality(Range(t)) = Len(t)}

InitOutput ==
  /\ call = NoCall
  /\ cli = NoCli
  /\ matching = NoMatching
  /\ printed = NoTable
  /\ pipe = NoPipe
  /\ tasks \in OutTaskLists
  /\ options \in {o \in Options : o.aggregateOutput}
  /\ outputLen \in 1..MaxChunks
  /\ Declared

NextOutput ==
  \/ Next
  \/ \E i \in Idx : ChildWrite(i)

SpecOutput == InitOutput /\ [][NextOutput]_vars

\* --------------------------------------------- bin: the command-line run
runnerVars == <<tasks, options, outputLen, pc, loopLeft, results, arrayId, queue,
                promises, error, aborted, attempt, lastAttempt, lastResult, pstate,
                outcome, child, spawned, wrote, writer, destroyed, sink, exitedZero,
                jobs, waiting, settled, settledWith, doneCount, firstExhausted,
                abortCalls, raceAborts, atAbort, lateSpawns>>

\* argv.groups: groups in declaration order; a pattern is the name of one
\* script of the manifest, and the patterns of a group are different scripts
Groups ==
  [parallel : BOOLEAN,
   patterns : {t \in TaskLists : Len(t) <= MaxPatterns /\ Cardinality(Range(t)) = Len(t)}]

CommandLines == SeqsUpTo(Groups, MaxGroups)

\* the flags of the command line that decide how groups follow each other;
\* no --retry, no --max-parallel, no --aggregate-output
Argvs ==
  [continueOnError : BOOLEAN, race : BOOLEAN, maxParallel : {0}, retry : {0},
   aggregateOutput : {FALSE}, summary : BOOLEAN]

\* the options runAll is called with for a group, as npmRunAll of lib hands
\* them to runTasks
GroupOptions(argv, group) ==
  [parallel |-> group.parallel,
   race |-> group.parallel /\ argv.race,
   continueOnError |-> argv.continueOnError,
   maxParallel |-> IF group.parallel THEN argv.maxParallel ELSE 1,
   retry |-> argv.retry,
   aggregateOutput |-> group.parallel /\ argv.aggregateOutput]

\* the reduce that chains every group, empty or not
nextGroupNoSkip(groups, k) == IF k < Len(groups) THEN k + 1 ELSE 0

\* argv.groups.reduce(...): if (group.patterns.length === 0) return prev; the
\* first group after group k that has patterns, or 0
nextGroup(groups, k) ==
  LET later == {j \in (k + 1)..Len(groups) : groups[j].patterns # <<>>}
  IN IF later = {} THEN 0 ELSE CHOOSE j \in later : \A m \in later : j <= m

\* if (showSummary && options.stdout) options.stdout.write(printSummaryTable(results)),
\* the first statement of done(): the tables written by calls of done()
summaryWrites(showSummary, calls) == IF showSummary THEN calls ELSE 0

\* a chain whose callback runs however prev settles, and before it does
chainedAlways(prev) == TRUE

\* prev.then(() => runAll(...)): the callback runs when prev is fulfilled
chained(prev) == prev = "resolved"

\* a driver that always exits with 0
exitStatusZero(chain) == 0

\* bootstrap: main(...).then(() => process.exit(0), () => process.exit(1))
exitStatus(chain) == IF chain = "resolved" THEN 0 ELSE 1

\* prev of the reduce: Promise.resolve(null) before the first group, then
\* the promise of the group that runs
Prev == IF pipe.gi = 0 THEN "resolved" ELSE settled

\* task i ran out of attempts, the last one ending with a non-zero exit code
FinallyFailed(i) == outcome[i] = "exhausted" /\ lastResult[i] \in ExitCodes \ {0}

InitPipeline ==
  /\ call = NoCall
  /\ cli = NoCli
  /\ matching = NoMatching
  /\ printed = NoTable
  /\ pipe \in {[NoPipe EXCEPT !.groups = gs, !.argv = a, !.chain = "pending"] :
                 gs \in CommandLines, a \in Argvs}
  /\ tasks = <<>>
  /\ options = GroupOptions(NoPipe.argv, [parallel |-> FALSE, patterns |-> <<>>])
  /\ outputLen = 0
  /\ pc = "idle"
  /\ loopLeft = 0
  /\ Fresh

\* the callback of prev.then: runAll and then runTasks are called for the
\* next group that has patterns; runTasks' executor runs after the manifest
\* was read, in a later turn of the event loop than the settlement of prev
StartGroup ==
  /\ pipe.chain = "pending"
  /\ pipe.exit = Undefined
  /\ chained(Prev)
  /\ nextGroup(pipe.groups, pipe.gi) # 0
  /\ LET j == nextGroup(pipe.groups, pipe.gi)
         g == pipe.groups[j]
     IN /\ tasks' = g.patterns
        /\ options' = GroupOptions(pipe.argv, g)
        /\ pipe' = [pipe EXCEPT !.gi = j,
                                !.strays = @ + Cardinality({i \in Idx : child[i].alive}),
                                !.summaries = @ + summaryWrites(pipe.argv.summary, doneCount),
                                !.failed = @ \/ \E i \in Idx : FinallyFailed(i),
                                !.allOk = @ /\ \A i \in Idx : outcome[i] = "succeeded"]
        /\ Becomes(declared(g.patterns))
  /\ pc' = "start"
  /\ loopLeft' = initial'
  /\ outputLen' = 0
  /\ UNCHANGED <<call, cli, matching, printed>>

\* the chain of the groups ends: its last promise settles and the handler
\* registered by bootstrap calls process.exit; promise reactions all, they
\* run before any other event
ChainEnds ==
  /\ pipe.chain = "pending"
  /\ \/ Prev = "rejected"
     \/ Prev = "resolved" /\ nextGroup(pipe.groups, pipe.gi) = 0

PipeSettle ==
  /\ ChainEnds
  /\ pipe' = [pipe EXCEPT !.chain = Prev,
                          !.error = IF Prev = "rejected" THEN error ELSE NoError,
                          !.exit = exitStatus(Prev)]
  /\ UNCHANGED <<call, cli, matching, printed>>
  /\ UNCHANGED runnerVars

\* the process lives and no promise reaction of the chain is due
Running == pipe.exit = Undefined /\ ~ChainEnds

NextPipeline ==
  \/ StartGroup
  \/ PipeSettle
  \/ Running /\ LoopNext
  \/ Running /\ \E i \in Idx : \E code \in ExitCodes \cup {Null} : ChildClose(i, code)
  \/ Running /\ \E i \in Idx : ChildError(i)

SpecPipeline == InitPipeline /\ [][NextPipeline]_vars

\* ------------------------------------- lib/index: the library function
\* the arguments of a call of npmRunAll(patternOrPatterns, options): the
\* patterns are names of scripts; badPlaceholder says that a pattern holds a
\* placeholder applyArguments throws on; taskList is absent, an array or
\* something else; maxParallel and retry may be negative
Calls ==
  {c \in [patterns : {t \in TaskLists : Len(t) <= MaxPatterns /\ Cardinality(Range(t)) = Len(t)},
          badPlaceholder : BOOLEAN,
          taskList : {"null", "array", "other"},
          parallel : BOOLEAN, race : BOOLEAN, aggregateOutput : BOOLEAN,
          continueOnError : BOOLEAN,
          maxParallel : (-1)..MaxCap,
          retry : (-1)..MaxRetry] :
     c.patterns = <<>> => ~c.badPlaceholder}

\* the cap taken from the options whether the run is parallel or not
callMaxParallelGiven(c) == c.maxParallel

\* const maxParallel = parallel ? options.maxParallel || 0 : 1
callMaxParallel(c) == IF c.parallel THEN c.maxParallel ELSE 1

\* a test of parallel that lets every flag through
requiresParallelNever(parallel, flag) == FALSE

\* if (!parallel && aggregateOutput), if (!parallel && race)
requiresParallel(parallel, flag) == ~parallel /\ flag

\* the synchronous part of npmRunAll, in the order of the code: what the
\* call returns before anything is read or run
validate(c) ==
  IF c.badPlaceholder THEN [stage |-> "rejected", message |-> "Invalid Placeholder"]
  ELSE IF Len(c.patterns) = 0 THEN [stage |-> "resolved", message |-> "null"]
  ELSE IF c.taskList = "other" THEN [stage |-> "rejected", message |-> "Invalid options.taskList"]
  ELSE IF callMaxParallel(c) < 0
    THEN [stage |-> "rejected", message |-> "Invalid options.maxParallel"]
  ELSE IF c.retry < 0 THEN [stage |-> "rejected", message |-> "Invalid options.retry"]
  ELSE IF requiresParallel(c.parallel, c.aggregateOutput)
    THEN [stage |-> "rejected",
          message |-> "Invalid options.aggregateOutput; It requires parallel"]
  ELSE IF requiresParallel(c.parallel, c.race)
    THEN [stage |-> "rejected", message |-> "Invalid options.race; It requires parallel"]
  ELSE [stage |-> "validated", message |-> ""]

\* runOpts, the options runTasks is called with
runOpts(c) ==
  [parallel |-> c.parallel, race |-> c.race, continueOnError |-> c.continueOnError,
   maxParallel |-> callMaxParallel(c), retry |-> c.retry,
   aggregateOutput |-> c.aggregateOutput]

InitApi ==
  /\ call \in {[args |-> c, stage |-> "called", message |-> "", manifestRead |-> FALSE] :
                 c \in Calls}
  /\ cli = NoCli
  /\ matching = NoMatching
  /\ printed = NoTable
  /\ pipe = NoPipe
  /\ tasks = <<>>
  /\ options = runOpts([patterns |-> <<>>, badPlaceholder |-> FALSE, taskList |-> "null",
                        parallel |-> FALSE, race |-> FALSE, aggregateOutput |-> FALSE,
                        continueOnError |-> FALSE, maxParallel |-> 0, retry |-> 0])
  /\ outputLen = 0
  /\ pc = "idle"
  /\ loopLeft = 0
  /\ Fresh

\* npmRunAll runs up to its return statement
ApiValidate ==
  /\ call.stage = "called"
  /\ call' = [call EXCEPT !.stage = validate(call.args).stage,
                          !.message = validate(call.args).message]
  /\ UNCHANGED <<cli, matching, printed, pipe>>
  /\ UNCHANGED runnerVars

\* the two callbacks chained on Promise.resolve(): readPackageJson() unless
\* a taskList was given, then matchTasks and runTasks; found says whether
\* the manifest could be read and every pattern matched a script
ApiRun(found) ==
  /\ call.stage = "validated"
  /\ IF found
     THEN /\ call' = [call EXCEPT !.stage = "running",
                                  !.manifestRead = (call.args.taskList = "null")]
          /\ tasks' = call.args.patterns
          /\ options' = runOpts(call.args)
          /\ Becomes(declared(call.args.patterns))
          /\ pc' = "start"
          /\ loopLeft' = initial'
          /\ outputLen' = 0
          /\ UNCHANGED <<cli, matching, printed, pipe>>
     ELSE /\ call' = [call EXCEPT !.stage = "rejected", !.message = "not found",
                                  !.manifestRead = (call.args.taskList = "null")]
          /\ UNCHANGED <<cli, matching, printed, pipe>>
          /\ UNCHANGED runnerVars

NextApi ==
  \/ ApiValidate
  \/ \E found \in BOOLEAN : ApiRun(found)
  \/ LoopNext
  \/ \E i \in Idx : \E code \in ExitCodes \cup {Null} : ChildClose(i, code)
  \/ \E i \in Idx : ChildError(i)

SpecApi == InitApi /\ [][NextApi]_vars

\* --------------------------------- bin/common/parse-cli-args: the parser
\* a command-line argument: the number of leading dashes and what follows
\* them, letter by letter for a single dash and as one word otherwise
Short(l) == [d |-> 1, b |-> <<l>>]
Cluster(ls) == [d |-> 1, b |-> ls]
Long(name) == [d |-> 2, b |-> <<name>>]
Word(w) == [d |-> 0, b |-> <<w>>]
DashDash == [d |-> 2, b |-> <<>>]

\* the arguments tried: short flags alone and clustered, --retry and
\* --serial, the separator, script names, and the counts 0, 2 and -1
Tokens ==
  {Short("c"), Short("r"), Short("p"), Short("s"),
   Cluster(<<"c", "p">>), Cluster(<<"r", "c">>), Cluster(<<"r", "p">>),
   Long("retry"), Long("serial"), DashDash,
   Word("a"), Word("b"), Word("0"), Word("2"), Short("1")}

ArgLists == SeqsUpTo(Tokens, MaxArgs)

\* Number(x) of an argument, NaN for what is no number and for undefined
NaN == -99
toNumber(args, i) ==
  IF i > Len(args) THEN NaN
  ELSE IF args[i] = Word("0") THEN 0
  ELSE IF args[i] = Word("2") THEN 2
  ELSE IF args[i] = Short("1") THEN -1
  ELSE NaN

\* const CONCAT_OPTIONS = /^-[clnprs]+$/
CONCAT_OPTIONS(arg) ==
  arg.d = 1 /\ Len(arg.b) >= 1 /\ \A k \in 1..Len(arg.b) : arg.b[k] \in {"c", "l", "n", "p", "r", "s"}

\* arg.slice(1).split("").map((c) => `-${c}`)
splitCluster(arg) == [k \in 1..Len(arg.b) |-> Short(arg.b[k])]

\* new ArgumentSet(initialValues, options) as the npm-run-all command makes
\* it: no initial values, not single mode, one sequential group
ArgumentSet ==
  [continueOnError |-> FALSE, groups |-> <<[parallel |-> FALSE, patterns |-> <<>>]>>,
   maxParallel |-> 0, printLabel |-> FALSE, printName |-> FALSE, race |-> FALSE,
   rest |-> <<>>, silent |-> FALSE, singleMode |-> FALSE, retry |-> 0,
   summary |-> FALSE, aggregateOutput |-> FALSE]

\* throw new Error(`Invalid Option: ${option}${why}`)
InvalidOption(option, why) == [thrown |-> TRUE, option |-> option, why |-> why]
Thrown(x) == "thrown" \in DOMAIN x

\* addGroup(groups, initialValues)
addGroup(groups, parallel) == Append(groups, [parallel |-> parallel, patterns |-> <<>>])

\* get parallel()
setParallel(set) == \E j \in 1..Len(set.groups) : set.groups[j].parallel

\* a push into the first group in place of the last
pushPatternFirst(set, arg) ==
  [set EXCEPT !.groups[1].patterns = Append(@, arg.b[1])]

\* set.lastGroup.patterns.push(arg)
pushPattern(set, arg) ==
  [set EXCEPT !.groups[Len(set.groups)].patterns = Append(@, arg.b[1])]

\* Number(args[++i]) || 0
retryCount(n) == IF n = NaN \/ n = 0 THEN 0 ELSE n

\* the tests made after the loop, in every call of parseCLIArgsCore
finalChecks(set, args) ==
  IF ~setParallel(set) /\ set.aggregateOutput
  THEN InvalidOption(Long("aggregate-output"), "without parallel")
  ELSE IF ~setParallel(set) /\ set.race
  THEN InvalidOption(IF \E k \in 1..Len(args) : args[k] = Long("race")
                     THEN Long("race") ELSE Short("r"), "without parallel")
  ELSE IF ~setParallel(set) /\ set.maxParallel # 0
  THEN InvalidOption(Long("max-parallel"), "without parallel")
  ELSE set

RECURSIVE parseCLIArgsCore(_, _)
RECURSIVE parseLoop(_, _, _)

\* the for loop of parseCLIArgsCore from index i on
parseLoop(set, args, i) ==
  IF i > Len(args) THEN set
  ELSE LET arg == args[i]
       IN CASE arg = DashDash ->
                 [set EXCEPT !.rest = SubSeq(args, i + 1, Len(args))]
            [] arg \in {Short("c"), Long("continue-on-error")} ->
                 parseLoop([set EXCEPT !.continueOnError = TRUE], args, i + 1)
            [] arg \in {Short("l"), Long("print-label")} ->
                 parseLoop([set EXCEPT !.printLabel = TRUE], args, i + 1)
            [] arg \in {Short("n"), Long("print-name")} ->
                 parseLoop([set EXCEPT !.printName = TRUE], args, i + 1)
            [] arg \in {Short("r"), Long("race")} ->
                 parseLoop([set EXCEPT !.race = TRUE], args, i + 1)
            [] arg = Long("retry") ->
                 parseLoop([set EXCEPT !.retry = retryCount(toNumber(args, i + 1))], args, i + 2)
            [] arg = Long("summary") ->
                 parseLoop([set EXCEPT !.summary = TRUE], args, i + 1)
            [] arg = Long("silent") ->
                 parseLoop([set EXCEPT !.silent = TRUE], args, i + 1)
            [] arg = Long("max-parallel") ->
                 LET n == toNumber(args, i + 1)
                 IN IF n = NaN \/ n <= 0
                    THEN InvalidOption(Long("max-parallel"), "")
                    ELSE parseLoop([set EXCEPT !.maxParallel = n], args, i + 2)
            [] arg \in {Short("s"), Long("sequential"), Long("serial")} ->
                 IF set.singleMode /\ arg = Short("s")
                 THEN parseLoop([set EXCEPT !.silent = TRUE], args, i + 1)
                 ELSE IF set.singleMode
                 THEN InvalidOption(arg, "")
                 ELSE parseLoop([set EXCEPT !.groups = addGroup(@, FALSE)], args, i + 1)
            [] arg = Long("aggregate-output") ->
                 parseLoop([set EXCEPT !.aggregateOutput = TRUE], args, i + 1)
            [] arg \in {Short("p"), Long("parallel")} ->
                 IF set.singleMode
                 THEN InvalidOption(arg, "")
                 ELSE parseLoop([set EXCEPT !.groups = addGroup(@, TRUE)], args, i + 1)
            [] OTHER ->
                 IF CONCAT_OPTIONS(arg)
                 THEN LET inner == parseCLIArgsCore(set, splitCluster(arg))
                      IN IF Thrown(inner) THEN inner ELSE parseLoop(inner, args, i + 1)
                 ELSE IF arg.d > 0
                 THEN InvalidOption(arg, "")
                 ELSE parseLoop(pushPattern(set, arg), args, i + 1)

parseCLIArgsCore(set, args) ==
  LET looped == parseLoop(set, args, 1)
  IN IF Thrown(looped) THEN looped ELSE finalChecks(looped, args)

\* module.exports = function parseCLIArgs(args, initialValues, options)
parseCLIArgs(args) == parseCLIArgsCore(ArgumentSet, args)

InitCli ==
  /\ cli \in {[stage |-> "given", args |-> a, out |-> ArgumentSet] : a \in ArgLists}
  /\ call = NoCall
  /\ matching = NoMatching
  /\ printed = NoTable
  /\ pipe = NoPipe
  /\ tasks = <<>>
  /\ options = GroupOptions(NoPipe.argv, [parallel |-> FALSE, patterns |-> <<>>])
  /\ outputLen = 0
  /\ pc = "idle"
  /\ loopLeft = 0
  /\ Fresh

\* const argv = parseCLIArgs(args), the first statement of the command
Parse ==
  /\ cli.stage = "given"
  /\ cli' = [cli EXCEPT !.stage = "parsed", !.out = parseCLIArgs(cli.args)]
  /\ UNCHANGED <<call, matching, printed, pipe>>
  /\ UNCHANGED runnerVars

NextCli == Parse

SpecCli == InitCli /\ [][NextCli]_vars

\* ------------------------------- lib/match-tasks: the expansion of patterns
\* a script name as its colon-separated segments; the scripts of the
\* manifest in the order of the manifest
Manifest == <<<<"t", "a">>, <<"t", "b">>, <<"u", "a">>>>

\* a pattern: its segments, "*" for one whole segment and "**" for any
\* number of segments, and whether it was written with a leading !
Pattern(neg, segs) == [neg |-> neg, segs |-> segs]

\* the patterns tried: names and single-segment wildcards, the pattern **,
\* and two exclusions
PatternLiterals ==
  {Pattern(FALSE, <<x, y>>) : x \in {"t", "u", "*"}, y \in {"a", "b", "*"}}
    \cup {Pattern(FALSE, <<"**">>)}
    \cup {Pattern(TRUE, <<"t", "*">>), Pattern(TRUE, <<"*", "a">>)}

\* a single-segment wildcard matches within one segment, ** across segments
RECURSIVE globMatch(_, _)
globMatch(segs, name) ==
  IF segs = <<>> THEN name = <<>>
  ELSE IF Head(segs) = "**"
  THEN \E k \in 0..Len(name) : globMatch(Tail(segs), SubSeq(name, k + 1, Len(name)))
  ELSE /\ name # <<>>
       /\ Head(segs) \in {"*", Head(name)}
       /\ globMatch(Tail(segs), Tail(name))

\* step 1: the positive patterns in input order, and the negative ones
positives(patterns) == SelectSeq(patterns, LAMBDA p : ~p.neg)
negatives(patterns) == {patterns[k].segs : k \in {j \in 1..Len(patterns) : patterns[j].neg}}

\* steps 2 and 3: the scripts a positive pattern stands for, in the order of
\* the manifest: they match it and match no negative pattern
expand(taskList, p, negs) ==
  SelectSeq(taskList, LAMBDA name : globMatch(p.segs, name) /\ \A g \in negs : ~globMatch(g, name))

\* an expansion that keeps every occurrence
addAlways(set, name, source) ==
  [result |-> Append(set.result, name),
   sources |-> [set.sources EXCEPT ![name] = @ \cup {source}]]

\* step 4: an occurrence of a script is kept when it is the first one of
\* the script, or when the same pattern literal has already produced the
\* script; an occurrence that a different pattern adds to a script already
\* listed is dropped
add(set, name, source) ==
  [result |-> IF set.sources[name] = {} \/ source \in set.sources[name]
              THEN Append(set.result, name) ELSE set.result,
   sources |-> [set.sources EXCEPT ![name] = @ \cup {source}]]

RECURSIVE addAll(_, _, _)
addAll(set, names, source) ==
  IF names = <<>> THEN set ELSE addAll(add(set, Head(names), source), Tail(names), source)

RECURSIVE expandAll(_, _, _, _)
expandAll(set, taskList, pos, negs) ==
  IF pos = <<>> THEN set
  ELSE expandAll(addAll(set, expand(taskList, Head(pos), negs), Head(pos)),
                 taskList, Tail(pos), negs)

\* matchTasks(taskList, patterns): the tasks to run in order, or the error
\* `not found` when there is none (step 5)
matchTasks(taskList, patterns) ==
  LET empty == [result |-> <<>>, sources |-> [name \in Range(taskList) |-> {}]]
      found == expandAll(empty, taskList, positives(patterns), negatives(patterns)).result
  IN IF found = <<>> THEN [stage |-> "failed", message |-> "not found", out |-> <<>>]
     ELSE [stage |-> "done", message |-> "", out |-> found]

InitMatching ==
  /\ matching \in {[stage |-> "given", taskList |-> Manifest, patterns |-> ps,
                    message |-> "", out |-> <<>>] : ps \in SeqsUpTo(PatternLiterals, MaxGiven)}
  /\ call = NoCall
  /\ cli = NoCli
  /\ printed = NoTable
  /\ pipe = NoPipe
  /\ tasks = <<>>
  /\ options = GroupOptions(NoPipe.argv, [parallel |-> FALSE, patterns |-> <<>>])
  /\ outputLen = 0
  /\ pc = "idle"
  /\ loopLeft = 0
  /\ Fresh

\* const tasks = matchTasks(x.taskList, patterns), in npmRunAll
Match ==
  /\ matching.stage = "given"
  /\ LET m == matchTasks(matching.taskList, matching.patterns)
     IN matching' = [matching EXCEPT !.stage = m.stage, !.message = m.message, !.out = m.out]
  /\ UNCHANGED <<call, cli, printed, pipe>>
  /\ UNCHANGED runnerVars

SpecMatching == InitMatching /\ [][Match]_vars

\* ---------------------------------- lib/print-summary: printSummaryTable
\* a string is the sequence of its characters; a colour code of ansi-styles
\* is one element of its own, written in full
Repeat(c, n) == [k \in 1..n |-> c]

\* ansiStyles.white / gray / red: open and close
AnsiOpen(colour) ==
  CASE colour = "white" -> "\\u001b[37m" [] colour = "gray" -> "\\u001b[90m" [] colour = "red" -> "\\u001b[31m"
AnsiClose == "\\u001b[39m"
AnsiCodes == {AnsiOpen("white"), AnsiOpen("gray"), AnsiOpen("red"), AnsiClose}

\* String(n) of a natural number
RECURSIVE digits(_)
digits(n) ==
  LET digit == <<"0", "1", "2", "3", "4", "5", "6", "7", "8", "9">>[(n % 10) + 1]
  IN IF n < 10 THEN <<digit>> ELSE Append(digits(n \div 10), digit)

\* String(n) of an integer
intString(n) == IF n < 0 THEN <<"-">> \o digits(0 - n) ELSE digits(n)

\* code = code == 130 ? code + ' (Killed)' : code, then String(code)
codeString(code) ==
  IF code = Killed THEN intString(code) \o <<" ", "(", "K", "i", "l", "l", "e", "d", ")">>
  ELSE IF code = Undefined THEN <<"u", "n", "d", "e", "f", "i", "n", "e", "d">>
  ELSE IF code = Null THEN <<"n", "u", "l", "l">>
  ELSE intString(code)

\* (durationMs / 1000).toFixed(2) of a whole number of milliseconds: the
\* seconds rounded to hundredths
toFixed2(ms) ==
  LET h == (ms + 5) \div 10
  IN digits(h \div 100) \o <<".">> \o digits((h \div 10) % 10) \o digits(h % 10)

\* str.padEnd(w)
padEnd(str, w) == IF Len(str) >= w THEN str ELSE str \o Repeat(" ", w - Len(str))

\* parts.join(sep)
RECURSIVE join(_, _)
join(parts, sep) ==
  IF parts = <<>> THEN <<>>
  ELSE IF Len(parts) = 1 THEN parts[1]
  ELSE parts[1] \o sep \o join(Tail(parts), sep)

headers ==
  <<<<"T", "a", "s", "k">>,
    <<"F", "i", "n", "a", "l", "E", "x", "i", "t", "C", "o", "d", "e">>,
    <<"R", "e", "t", "r", "i", "e", "s">>,
    <<"T", "i", "m", "e", "(", "s", ")">>>>

summaryText == <<" ", "S", "u", "m", "m", "a", "r", "y">>

\* const rows = results.map(...)
rows(res) ==
  [k \in 1..Len(res) |->
     <<res[k].name, codeString(res[k].code), intString(res[k].retries), toFixed2(res[k].durationMs)>>]

Max(S) == CHOOSE x \in S : \A y \in S : y <= x

\* a column as wide as its header alone
colWidthsOfHeaders(tab) == [i \in 1..Len(headers) |-> Len(headers[i])]

\* const colWidths = headers.map((_, i) => Math.max(...table.map((row) => row[i].length)))
colWidths(tab) == [i \in 1..Len(headers) |-> Max({Len(tab[r][i]) : r \in 1..Len(tab)})]

\* '|' + row.map((cell, i) => ' ' + cell.padEnd(colWidths[i]) + ' ').join('|') + '|'
rowString(row, widths) ==
  <<"|">> \o join([i \in 1..Len(row) |-> <<" ">> \o padEnd(row[i], widths[i]) \o <<" ">>], <<"|">>)
    \o <<"|">>

\* the colour of a row: row[1] == 0, row[1].includes('130'), or neither
rowColour(row) ==
  IF row[2] = <<"0">> THEN "white"
  ELSE IF \E k \in 1..(Len(row[2]) - 2) : SubSeq(row[2], k, k + 2) = <<"1", "3", "0">> THEN "gray"
  ELSE "red"

printSummaryTable(res) ==
  LET tab == <<headers>> \o rows(res)
      widths == colWidths(tab)
      divider == <<"+">> \o join([i \in 1..Len(widths) |-> Repeat("-", widths[i] + 2)], <<"+">>)
                   \o <<"+">>
      totalInner == Len(divider) - 2
      title == <<"|">> \o summaryText \o Repeat(" ", totalInner - Len(summaryText)) \o <<"|">>
      headerLine == rowString(headers, widths)
      separator ==
        <<"|">> \o join([i \in 1..Len(widths) |->
                           <<" ">> \o padEnd(Repeat("-", widths[i]), widths[i]) \o <<" ">>], <<"|">>)
          \o <<"|">>
      body == [k \in 1..Len(res) |->
                 <<AnsiOpen(rowColour(rows(res)[k]))>> \o rowString(rows(res)[k], widths)
                   \o <<AnsiClose, "\n">>]
  IN <<"\n">> \o divider \o <<"\n">> \o title \o <<"\n">> \o divider \o <<"\n">>
       \o headerLine \o <<"\n">> \o separator \o <<"\n">>
       \o join(body, <<>>) \o divider

\* the results handed to printSummaryTable: names shorter and longer than
\* the header of their column, the codes a result can carry, times shorter
\* and longer than the header of theirs
ResultLists ==
  SeqsUpTo([name : {<<"a">>, <<"b", "u", "i", "l", "d">>},
            code : {Undefined, 0, 1, Killed},
            retries : {0, 1},
            durationMs : {0, 12345678}],
           MaxRows)

InitTable ==
  /\ printed \in {[stage |-> "given", results |-> rs, output |-> <<>>] : rs \in ResultLists}
  /\ call = NoCall
  /\ cli = NoCli
  /\ matching = NoMatching
  /\ pipe = NoPipe
  /\ tasks = <<>>
  /\ options = GroupOptions(NoPipe.argv, [parallel |-> FALSE, patterns |-> <<>>])
  /\ outputLen = 0
  /\ pc = "idle"
  /\ loopLeft = 0
  /\ Fresh

\* options.stdout.write(printSummaryTable(results)), in done()
PrintSummary ==
  /\ printed.stage = "given"
  /\ printed' = [printed EXCEPT !.stage = "written", !.output = printSummaryTable(printed.results)]
  /\ UNCHANGED <<call, cli, matching, pipe>>
  /\ UNCHANGED runnerVars

SpecTable == InitTable /\ [][PrintSummary]_vars

\* ================================================================ claims
\* the concurrency cap of the group: an unset or zero maxParallel means the
\* number of tasks
Cap == IF options.maxParallel > 0 THEN options.maxParallel ELSE N

\* task i is no longer in flight: its then / catch handler has run
Left(i) == pstate[i] \in {"fulfilled", "rejected"} /\ i \notin Range(promises)

NamesInOrder(res) == Len(res) = N /\ \A i \in Idx : res[i].name = tasks[i]

\* C1: the result list, in every state and as the value the group settles
\* with (the resolved list, or the list carried by the rejection), has one
\* entry per task, and entry i carries the name of task i, whatever the
\* order in which the tasks complete.
C1_ResultsInInputOrder ==
  /\ NamesInOrder(results)
  /\ settled # "pending" => NamesInOrder(settledWith)

\* a group has settled in which task 2 ran out of attempts before task 1
\* completed
C1_Witness ==
  /\ settled # "pending"
  /\ N >= 2
  /\ firstExhausted = 2
  /\ results[1].code = 0

\* C2: in a sequential group without continueOnError, once a task has
\* failed definitively no later task is started, and the list the group
\* settles with has exactly {code: undefined, retries: 0} for every later
\* task.
C2_SequentialStopsAtFailure ==
  (~options.parallel /\ ~options.continueOnError) =>
    \A i \in Idx : outcome[i] = "exhausted" =>
      \A j \in Idx : j > i =>
        /\ spawned[j] = 0
        /\ settled # "pending" =>
             settledWith[j] = [name |-> tasks[j], code |-> Undefined, retries |-> 0]

C5_ParallelFailFast ==
  (options.parallel /\ ~options.continueOnError /\ ~options.race /\ firstExhausted # 0) =>
    /\ \A j \in atAbort : Left(j) => results[j].code = Killed
    /\ settled # "pending" =>
         /\ settled = "rejected"
         /\ error.names = <<tasks[firstExhausted]>>
         /\ ~error.joined
         /\ \A j \in atAbort : Left(j) /\ ~child[j].alive /\ settledWith[j].code = Killed

\* a parallel group has rejected after a failure that killed a task in flight
C5_Witness ==
  /\ options.parallel /\ ~options.continueOnError /\ ~options.race
  /\ settled = "rejected"
  /\ firstExhausted # 0
  /\ atAbort # {}

\* C6: with continueOnError and without race the group is never aborted;
\* it settles only when every task has been started and has run to its own
\* completion, and it rejects if and only if some task ended with a code
\* other than 0.
C6_ContinueOnError ==
  (options.continueOnError /\ ~options.race) =>
    /\ ~aborted /\ abortCalls = 0
    /\ \A i \in Idx : ~child[i].wasAborted
    /\ (settled # "pending" /\ N > 0) =>
         /\ \A i \in Idx : /\ spawned[i] >= 1
                           /\ Left(i)
                           /\ ~child[i].alive
                           /\ outcome[i] \in {"succeeded", "exhausted"}
         /\ settledWith = results
         /\ (settled = "rejected") <=> (\E i \in Idx : settledWith[i].code # 0)

\* a group of three has settled by rejecting although its first task failed
\* and later tasks succeeded
C6_Witness ==
  /\ options.continueOnError /\ ~options.race
  /\ N = 3
  /\ settled = "rejected"
  /\ results[1].code = 1
  /\ results[3].code = 0

\* C7: a group run with race settles with at most one result of code 0.
C7_RaceAtMostOneZero ==
  (options.race /\ settled # "pending") =>
    Cardinality({i \in Idx : settledWith[i].code = 0}) <= 1

\* a race group has settled with a winner and with a task killed in flight
C7_Witness ==
  /\ options.race
  /\ settled # "pending"
  /\ \E i \in Idx : settledWith[i].code = 0
  /\ \E j \in Idx : settledWith[j].code = Killed

\* C8: in a race group every task in flight when a task exits with code 0
\* ends with code 130, and the race short-circuit is taken only for a task
\* that exited with code 0, never for a task that failed.
C8_RaceShortCircuit ==
  options.race =>
    /\ (\E w \in Idx : outcome[w] = "succeeded" /\ Left(w)) =>
         \A j \in atAbort : Left(j) => results[j].code = Killed
    /\ raceAborts > 0 => \E w \in Idx : outcome[w] = "succeeded"

\* C9: the number of tasks in flight and the number of live children never
\* exceed the cap; a sequential group has cap 1.
C9_WithinCap ==
  /\ Len(promises) <= Cap
  /\ Cardinality({i \in Idx : child[i].alive}) <= Cap
  /\ ~options.parallel => Cap = 1

\* two tasks run at the cap of 2 while a third waits in the queue
C9_Witness ==
  /\ Cap = 2
  /\ Len(promises) = 2
  /\ Cardinality({i \in Idx : child[i].alive}) = 2
  /\ queue # <<>>

\* C10: once aborted is true no child process is spawned any more, neither
\* for a task of the queue nor as a retry of a started task.
C10_NoSpawnAfterAbort ==
  /\ lateSpawns = 0
  /\ aborted => \A i \in Idx : outcome[i] # "awaiting" \/ child[i].wasAborted

\* C11: the group's promise settles only after every child process spawned
\* by the group has exited, on normal completion and after an abort.
C11_SettlesAfterExits ==
  settled # "pending" => \A i \in Idx : ~child[i].alive

\* C12: every result's retries field is a valid attempt index,
\* 0 <= retries <= retryLimit, in every state and in the list the group
\* settles with, for every task.
C12_RetriesInRange ==
  /\ \A i \in Idx : results[i].retries \in 0..options.retry
  /\ settled # "pending" =>
       \A i \in 1..Len(settledWith) : settledWith[i].retries \in 0..options.retry

\* the chunks of every task lie next to each other in out: two chunks of one
\* task have a chunk of that task right before the later one, hence only
\* chunks of that task between them
Contiguous(out) ==
  \A p \in 1..Len(out) : \A r \in p..Len(out) :
    (p < r /\ out[p].task = out[r].task) => out[r - 1].task = out[p].task

\* the then / catch handler of task i runs in this step
Leaves(i) ==
  /\ ~Left(i)
  /\ pstate'[i] \in {"fulfilled", "rejected"}
  /\ i \notin Range(promises')

\* C13: with aggregateOutput the output of each task appears in the real
\* sink as one contiguous block that does not overlap another task's, and
\* the blocks appear in completion order: whatever is added to the sink in a
\* step is added at its end and belongs to a task that completes in that
\* step, however the children's writes interleaved.
C13_AggregatedBlocks ==
  [][options.aggregateOutput =>
       /\ Contiguous(sink')
       /\ Len(sink') >= Len(sink)
       /\ SubSeq(sink', 1, Len(sink)) = sink
       /\ \A q \in (Len(sink) + 1)..Len(sink') :
            Leaves(sink'[q].task)]_vars

\* two tasks ran two attempts each and the sink holds the block of the second
\* task before the block of the first
C13_Witness ==
  /\ options.aggregateOutput
  /\ N = 2
  /\ Len(sink) = 4
  /\ sink[1].task = 2 /\ sink[2].task = 2 /\ sink[2].attempt = 1
  /\ sink[3].task = 1 /\ sink[4].task = 1 /\ sink[4].attempt = 1

\* the chunks of held are in attempt order, and in the order printed within
\* an attempt
AttemptOrder(held) ==
  \A p \in 1..Len(held) : \A q \in p..Len(held) :
    \/ held[p].attempt < held[q].attempt
    \/ held[p].attempt = held[q].attempt /\ held[p].k <= held[q].k

\* C14: with aggregateOutput everything a task's children print is buffered
\* in attempt order, and when a task completes, by succeeding or by running
\* out of attempts, with or without continueOnError, what is buffered for it
\* is written to the real sink in that step.
C14_FlushedOnCompletion ==
  [][options.aggregateOutput =>
       \A i \in Idx :
         /\ wrote'[i] = wrote[i] + 1 =>
              writer'[i] = Append(writer[i], [task |-> i, attempt |-> attempt[i], k |-> wrote'[i]])
         /\ (Leaves(i) /\ outcome'[i] \in {"succeeded", "exhausted"}) =>
              /\ AttemptOrder(writer[i])
              /\ sink' = sink \o writer[i]]_vars

\* task w exited with code 0 and no other task ended by itself: each was
\* never started or had its only child killed
OnlyKilledBeside(w) ==
  /\ exitedZero[w]
  /\ \A j \in Idx \ {w} :
       /\ ~exitedZero[j]
       /\ attempt[j] = 0
       /\ spawned[j] = 0 \/ child[j].wasAborted

\* C15: a race group in which one task exits 0 and every other task is only
\* killed by the resulting abort resolves, whatever continueOnError is, and
\* the tasks killed in flight are reported with code 130.
C15_AbortDoesNotFail ==
  (options.race /\ settled # "pending" /\ \E w \in Idx : OnlyKilledBeside(w)) =>
    /\ settled = "resolved"
    /\ \A j \in atAbort : settledWith[j].code = Killed

\* some task of the command line finally failed with a non-zero exit code
AnyFailed == pipe.failed \/ \E i \in Idx : FinallyFailed(i)

\* every group with patterns was run and every task of every group succeeded
AllSucceeded ==
  /\ pipe.allOk
  /\ nextGroup(pipe.groups, pipe.gi) = 0
  /\ \A i \in Idx : outcome[i] = "succeeded"

\* C16: the process exits with 0 when every scheduled task finally
\* succeeded and with 1 whenever a task finally failed with a non-zero exit
\* code, also when continueOnError let the remaining tasks run.
C16_ExitCode ==
  pipe.exit # Undefined =>
    /\ AllSucceeded => pipe.exit = 0
    /\ AnyFailed => pipe.exit = 1

\* the process has exited with 1 after a group run with continueOnError in
\* which the first task failed and the second succeeded
C16_Witness ==
  /\ pipe.exit = 1
  /\ pipe.argv.continueOnError
  /\ N = 2
  /\ FinallyFailed(1)
  /\ outcome[2] = "succeeded"

\* ------------------------------------------------ runs whose children exit
\* the guard of ChildClose(i, code): task i has a running child that can exit
canClose(i) ==
  i \in Idx /\ pc = "run" /\ child[i].alive /\ (child[i].wasAborted \/ wrote[i] = outputLen)

\* the 'close' event of the child of task i, whatever its exit status; the
\* event ends the life of the child that is running (a retry spawns another)
exits(i) ==
  /\ canClose(i)
  /\ ~child'[i].alive \/ spawned'[i] # spawned[i]
  /\ \E code \in ExitCodes \cup {Null} : ChildClose(i, code)

\* weak fairness of exits(i), as WF_vars(exits(i)) defines it, with the guard
\* of ChildClose for ENABLED <<exits(i)>>_vars (an exit always changes child[i])
childExits(i) == []<>(~canClose(i)) \/ []<><<exits(i)>>_vars

\* runTasks runs its synchronous part to the end, and every child that is
\* running exits at some time
SpecLive ==
  /\ Init
  /\ [][Next]_vars
  /\ WF_vars(RunEmpty)
  /\ WF_vars(LoopNext)
  /\ \A i \in 1..MaxTasks : childExits(i)

\* C17: when every spawned child eventually exits, the promise of a group
\* run eventually settles, resolved or rejected.
C17_EventuallySettles == <>(settled # "pending")

\* a run has settled after the exit of its three children
C17_Witness ==
  /\ settled # "pending"
  /\ N = 3
  /\ \A i \in Idx : spawned[i] > 0 /\ ~child[i].alive

\* ------------------------------------------------- abort() called again
\* what the results of a run depend on: everything but the counters of calls
\* and the callbacks registered to call done() once more
AbortView(S) ==
  [results |-> S.results, queue |-> S.queue, promises |-> S.promises,
   error |-> [S.error EXCEPT !.results = 0], aborted |-> S.aborted,
   child |-> S.child, pstate |-> S.pstate, outcome |-> S.outcome,
   lastResult |-> S.lastResult, writer |-> S.writer, sink |-> S.sink,
   settled |-> S.settled, settledWith |-> S.settledWith]

\* task i's child is killed in this step
KilledNow(i) == child'[i].wasAborted /\ ~child[i].wasAborted

\* C18: the aborted flag only goes from false to true, and a call of abort()
\* after the first changes nothing the results depend on: made in any state
\* reached after the first call it leaves results, kill flags, queue,
\* in-flight set and settlement as they are, and in a run the only children
\* killed after the first call are those attemptRun kills itself on starting.
C18_AbortIdempotent ==
  [][aborted =>
       /\ aborted'
       /\ AbortView(abort(Cur, FALSE)) = AbortView(Cur)
       /\ AbortView(abort(Cur, TRUE)) = AbortView(Cur)
       /\ \A i \in Idx : KilledNow(i) => spawned'[i] > spawned[i]]_vars

\* abort() was called twice in a run that killed a task
C18_Witness ==
  /\ abortCalls >= 2
  /\ settled # "pending"
  /\ \E i \in Idx : results[i].code = Killed

\* ------------------------------------------------- the order of the groups
\* a step that starts a group
GroupStarts == pipe'.gi # pipe.gi

\* C19: groups run in declaration order, one after another: when a group is
\* started it is the next group with patterns after the one before (groups
\* without patterns are skipped, no other is), the group before has settled,
\* none of its tasks is in flight and none of its children is still running;
\* a child is only ever spawned for a script of the group that runs.
C19_GroupsInTurn ==
  [][/\ GroupStarts =>
          /\ pipe'.gi > pipe.gi
          /\ pipe'.gi \in 1..Len(pipe.groups)
          /\ pipe.groups[pipe'.gi].patterns # <<>>
          /\ \A j \in (pipe.gi + 1)..(pipe'.gi - 1) : pipe.groups[j].patterns = <<>>
          /\ tasks' = pipe.groups[pipe'.gi].patterns
          /\ \A i \in DOMAIN spawned' : spawned'[i] = 0
          /\ pipe.gi # 0 => settled = "resolved"
          /\ promises = <<>>
          /\ \A i \in Idx : pstate[i] # "pending" /\ ~child[i].alive
     /\ ~GroupStarts =>
          /\ tasks' = tasks
          /\ pipe.gi # 0 => tasks = pipe.groups[pipe.gi].patterns]_vars

\* the second of two groups with patterns runs one of its scripts, after
\* the first group ran two
C19_Witness ==
  /\ pipe.gi = 2
  /\ Len(pipe.groups[1].patterns) = 2
  /\ \E i \in Idx : child[i].alive

\* ------------------------------------------------ a group that fails
\* the group that runs has rejected
GroupFailed == pipe.gi # 0 /\ settled = "rejected"

\* C20: without continueOnError, once a group has rejected no later group is
\* started and no script is spawned any more, and the chain of the groups
\* rejects with the error of that group, the process exiting with 1.
C20_FailureStopsPipeline ==
  [][(GroupFailed /\ ~pipe.argv.continueOnError) =>
       /\ pipe'.gi = pipe.gi
       /\ tasks' = tasks
       /\ spawned' = spawned
       /\ settled' = "rejected"
       /\ error' = error
       /\ pipe'.chain # pipe.chain =>
            /\ pipe'.chain = "rejected"
            /\ pipe'.error = error
            /\ pipe'.error.set
            /\ pipe'.exit = 1]_vars

\* the first of two groups with patterns failed without continueOnError and
\* the run has ended with its error, the second group never started
C20_Witness ==
  /\ ~pipe.argv.continueOnError
  /\ Len(pipe.groups) = 2
  /\ pipe.groups[2].patterns # <<>>
  /\ pipe.gi = 1
  /\ pipe.chain = "rejected"
  /\ pipe.error = error
  /\ \E i \in Idx : FinallyFailed(i)

\* ------------------------------------------- continueOnError across groups
\* C21: with continueOnError the chain of the groups ends only after the
\* last group with patterns has run, also when a task of an earlier group
\* finally failed, and a run in which a task failed ends with exit status 1.
C21_ContinuesAcrossGroups ==
  (pipe.argv.continueOnError /\ pipe.exit # Undefined) =>
    /\ nextGroup(pipe.groups, pipe.gi) = 0
    /\ AnyFailed => pipe.exit = 1

\* ------------------------------------------- options that need parallel
\* the call asks for race or aggregateOutput without parallel
NeedsParallel == ~call.args.parallel /\ (call.args.race \/ call.args.aggregateOutput)

\* nothing was read and nothing was run
NothingDone == ~call.manifestRead /\ pc = "idle" /\ \A i \in Idx : spawned[i] = 0

RequiresParallelMessages ==
  {"Invalid options.aggregateOutput; It requires parallel",
   "Invalid options.race; It requires parallel"}

\* C22 as stated: every call that asks for race or aggregateOutput without
\* parallel is rejected with the error of that option, nothing read or run.
C22_RejectedAlways ==
  (call.stage # "called" /\ NeedsParallel) =>
    /\ call.stage = "rejected"
    /\ call.message \in RequiresParallelMessages
    /\ NothingDone

\* C22: a call that asks for race or aggregateOutput without parallel never
\* reads the manifest and never spawns a child; with no pattern it resolves
\* with null, otherwise it is rejected, and when its placeholders, taskList
\* and retry are valid the error is that of the option: aggregateOutput's
\* if asked for, race's otherwise.
C22_RejectedBeforeRun ==
  (call.stage # "called" /\ NeedsParallel) =>
    /\ NothingDone
    /\ IF call.args.patterns = <<>>
       THEN call.stage = "resolved"
       ELSE /\ call.stage = "rejected"
            /\ (~call.args.badPlaceholder /\ call.args.taskList # "other" /\ call.args.retry >= 0)
                 => call.message = IF call.args.aggregateOutput
                                   THEN "Invalid options.aggregateOutput; It requires parallel"
                                   ELSE "Invalid options.race; It requires parallel"

\* a call for race without parallel, with two patterns and valid options,
\* was rejected
C22_Witness ==
  /\ call.stage = "rejected"
  /\ call.message = "Invalid options.race; It requires parallel"
  /\ Len(call.args.patterns) = 2
  /\ call.args.retry = 1

\* ------------------------------------------------------- --retry counts
\* --retry stands at position k of the command line, as an option
RetryAt(args, k) ==
  /\ k \in 1..Len(args)
  /\ args[k] = Long("retry")
  /\ \A j \in 1..(k - 1) : args[j] \notin {DashDash, Long("retry")}

\* the argument after position k is no count of retries: it is 0, negative,
\* or no number
BadCountAfter(args, k) ==
  k < Len(args) /\ (toNumber(args, k + 1) = NaN \/ toNumber(args, k + 1) <= 0)

\* C23: a command line in which --retry is followed by 0, by a negative
\* number or by something that is no number fails with an error on the
\* option --retry, and a command line without --retry parses to retry 0.
C23_RetryCountChecked ==
  cli.stage = "parsed" =>
    /\ \A k \in 1..Len(cli.args) :
         (RetryAt(cli.args, k) /\ BadCountAfter(cli.args, k)) =>
           (Thrown(cli.out) /\ cli.out.option = Long("retry"))
    /\ ((\A k \in 1..Len(cli.args) : cli.args[k] # Long("retry")) /\ ~Thrown(cli.out)) =>
         cli.out.retry = 0

\* --------------------------------------------------- clustered flags
\* the argument at position k is read as an option: no -- stands before it
\* and it is not the count of --retry
OptionAt(args, k) ==
  /\ k \in 1..Len(args)
  /\ \A j \in 1..(k - 1) : args[j] # DashDash
  /\ k > 1 => args[k - 1] # Long("retry")

\* several short flags written as one argument
IsCluster(arg) == CONCAT_OPTIONS(arg) /\ Len(arg.b) >= 2

\* the command line with the cluster at position k replaced by its flags
Expanded(args, k) ==
  SubSeq(args, 1, k - 1) \o splitCluster(args[k]) \o SubSeq(args, k + 1, Len(args))

\* C24: a command line with a clustered short flag parses to the same
\* argument set, or fails with the same error, as the command line with the
\* cluster replaced in place by its single flags.
C24_ClusterExpands ==
  cli.stage = "parsed" =>
    \A k \in 1..Len(cli.args) :
      (OptionAt(cli.args, k) /\ IsCluster(cli.args[k])) =>
        cli.out = parseCLIArgs(Expanded(cli.args, k))

\* ------------------------------------------------- groups of patterns
\* the command line as the parser reads it: every cluster replaced by its
\* flags, the count after --retry taken out, cut at the separator
RECURSIVE Reading(_)
Reading(args) ==
  IF args = <<>> \/ Head(args) = DashDash THEN <<>>
  ELSE IF Head(args) = Long("retry") THEN Reading(SubSeq(args, 3, Len(args)))
  ELSE IF IsCluster(Head(args)) THEN splitCluster(Head(args)) \o Reading(Tail(args))
  ELSE <<Head(args)>> \o Reading(Tail(args))

\* the arguments after the separator
RECURSIVE AfterSeparator(_)
AfterSeparator(args) ==
  IF args = <<>> THEN <<>>
  ELSE IF Head(args) = DashDash THEN Tail(args)
  ELSE IF Head(args) = Long("retry") THEN AfterSeparator(SubSeq(args, 3, Len(args)))
  ELSE AfterSeparator(Tail(args))

Opens(arg) == arg \in {Short("s"), Long("sequential"), Long("serial"), Short("p"), Long("parallel")}
OpensParallel(arg) == arg \in {Short("p"), Long("parallel")}

\* positions in flags of the arguments that open a group, in order
Openers(flags) == SelectSeq([k \in 1..Len(flags) |-> k], LAMBDA k : Opens(flags[k]))

\* the script names among flags[from..to], in order
PatternsBetween(flags, from, to) ==
  LET words == SelectSeq(SubSeq(flags, from, to), LAMBDA t : t.d = 0)
  IN [n \in 1..Len(words) |-> words[n].b[1]]

\* C25: a command line that parses gives the groups in command-line order:
\* the default sequential group first, then one group for each -s,
\* --sequential, --serial, -p or --parallel with the policy of the flag;
\* each group holds, in order, the patterns written between its flag and the
\* next one, and the arguments after -- are the rest arguments, in no group.
C25_GroupsInCommandLineOrder ==
  (cli.stage = "parsed" /\ ~Thrown(cli.out)) =>
    LET flags == Reading(cli.args)
        at == Openers(flags)
        groups == cli.out.groups
    IN /\ Len(groups) = Len(at) + 1
       /\ ~groups[1].parallel
       /\ \A g \in 1..Len(groups) :
            /\ g > 1 => groups[g].parallel = OpensParallel(flags[at[g - 1]])
            /\ groups[g].patterns =
                 PatternsBetween(flags,
                                 IF g = 1 THEN 1 ELSE at[g - 1] + 1,
                                 IF g = Len(groups) THEN Len(flags) ELSE at[g] - 1)
       /\ cli.out.rest = AfterSeparator(cli.args)

\* a pattern for the default group, a parallel group with a pattern, and
\* one argument after the separator
C25_Witness ==
  /\ cli.stage = "parsed"
  /\ ~Thrown(cli.out)
  /\ Len(cli.out.groups) = 2
  /\ cli.out.groups[1].patterns = <<"a">>
  /\ cli.out.groups[2].parallel
  /\ cli.out.groups[2].patterns # <<>>

\* ------------------------------------------- the results of a rejection
\* the promise of the group is rejected in this step
Rejects == settled = "pending" /\ settled' = "rejected"

\* C26: when the group rejects, the results of the rejection value are the
\* array that results is bound to at that time, whatever results.map has
\* replaced since the error was made: the list has one entry per task, in
\* input order, and is the result list as it stands at the settlement.
C26_RejectionCarriesResults ==
  [][Rejects =>
       /\ error'.set
       /\ error'.results = arrayId'
       /\ settledWith' = results'
       /\ NamesInOrder(settledWith')]_vars

\* a group rejected after results.map had replaced the array twice, the
\* second time for a task killed after the error was made
C26_Witness ==
  /\ settled = "rejected"
  /\ arrayId >= 2
  /\ error.results = arrayId
  /\ \E i \in Idx : settledWith[i].code = Killed

\* --------------------------------------------- runs in which all succeed
\* C27: without race, once a group in which no attempt ever ended otherwise
\* than by itself with exit status 0 has settled, it has resolved, every
\* task was spawned exactly once, and every result has code 0 and retries 0.
C27_AllSucceedAtOnce ==
  (/\ ~options.race
   /\ settled # "pending"
   /\ \A i \in Idx : spawned[i] > 0 => (exitedZero[i] /\ lastResult[i] = 0 /\ attempt[i] = 0)
   /\ \A i \in Idx : ~child[i].alive) =>
    /\ settled = "resolved"
    /\ \A i \in Idx : spawned[i] = 1
    /\ \A i \in Idx : settledWith[i] = [name |-> tasks[i], code |-> 0, retries |-> 0]
    /\ results = settledWith

\* three tasks run two at a time with one retry allowed, all succeeding at
\* the first attempt
C27_Witness ==
  /\ ~options.race
  /\ settled = "resolved"
  /\ N = 3
  /\ options.retry = 1
  /\ options.maxParallel = 2
  /\ \A i \in Idx : spawned[i] = 1 /\ exitedZero[i] /\ attempt[i] = 0

\* ------------------------------------------------- sequential groups
\* a child of task i is running
RunsNow(i) == child[i].alive

\* C28: in a run that is not parallel at most one task has a running child,
\* and task i+1 is first started only when task i was started and has left
\* its attempt loop with no child running: starts and completions follow
\* input order.
C28_SequentialInOrder ==
  (call.stage = "running" /\ ~call.args.parallel) =>
    /\ Cardinality({i \in Idx : RunsNow(i)}) <= 1
    /\ \A i \in Idx : i > 1 /\ spawned[i] > 0 =>
         /\ spawned[i - 1] > 0
         /\ ~RunsNow(i - 1)
         /\ outcome[i - 1] \notin {"queued", "awaiting"}

\* the second task of a sequential run is running after the first needed
\* two attempts
C28_Witness ==
  /\ call.stage = "running"
  /\ ~call.args.parallel
  /\ N = 2
  /\ spawned[1] = 2
  /\ RunsNow(2)

\* ------------------------------------------------ the slots of results
\* the runner of task j made a step: an attempt was started or has ended,
\* or its promise was settled
Acted(j) ==
  \/ spawned'[j] # spawned[j]
  \/ attempt'[j] # attempt[j]
  \/ outcome'[j] # outcome[j]
  \/ pstate'[j] # pstate[j]

\* C29: the entry of task j in results changes only in a step of the runner
\* of task j, also when several tasks of the group have the same name.
C29_OwnSlotOnly ==
  [][\A j \in Idx : results'[j] # results[j] => Acted(j)]_vars

\* ------------------------------------------------------ the summary table
\* the summary tables written so far in the run of the command line
TableWrites == pipe.summaries + summaryWrites(pipe.argv.summary, doneCount)

\* C30: with --summary the table is written exactly once in a run of a
\* command line that has patterns, and not before the last group with
\* patterns has finished.
C30_SummaryOnce ==
  (pipe.argv.summary /\ nextGroup(pipe.groups, 0) # 0) =>
    /\ pipe.exit # Undefined => TableWrites = 1
    /\ (pipe.gi = 0 \/ nextGroup(pipe.groups, pipe.gi) # 0 \/ settled = "pending") =>
         TableWrites = 0

\* ------------------------------------------------ abort of a running attempt
\* C31: when abort is requested while attempt k of a task runs, the attempt
\* ends with code 130 whatever the child's exit status, the task makes no
\* further attempt, and its result is code 130 with retries = k.  A child
\* was killed while its attempt ran when abort() reached it during the await.
C31_AbortedAttemptIsKilled ==
  \A i \in Idx :
    (child[i].wasAborted /\ outcome[i] \in {"awaiting", "abortedAfterRun"}) =>
      /\ spawned[i] = attempt[i] + 1
      /\ outcome[i] = "abortedAfterRun" => lastResult[i] = Killed
      /\ Left(i) => results[i].code = Killed /\ results[i].retries = attempt[i]

\* ------------------------------------------------- expansion of patterns
\* C32: a script matched by different positive patterns is kept once, where
\* it first appears; when a pattern literal is given twice its expansion is
\* kept both times.
C32_DuplicatesAcrossPatterns ==
  LET pos == positives(matching.patterns)
      \* the expansions of the positive patterns given, one after the other
      all == [k \in 1..Len(pos) |->
                expand(matching.taskList, pos[k], negatives(matching.patterns))]
      flat == [k \in 1..(Len(pos) * Len(matching.taskList)) |->
                 LET p == ((k - 1) \div Len(matching.taskList)) + 1
                     n == ((k - 1) % Len(matching.taskList)) + 1
                 IN IF n <= Len(all[p]) THEN <<all[p][n]>> ELSE <<>>]
      joined == SelectSeq(flat, LAMBDA e : e # <<>>)
      names == [k \in 1..Len(joined) |-> joined[k][1]]
      \* the same list with every script at its first place only
      first == SelectSeq([k \in 1..Len(names) |->
                            IF \E j \in 1..(k - 1) : names[j] = names[k] THEN <<>>
                            ELSE <<names[k]>>],
                         LAMBDA e : e # <<>>)
      times(n) == Cardinality({k \in 1..Len(matching.out) : matching.out[k] = n})
  IN matching.stage \in {"done", "failed"} =>
       /\ (\A j, k \in 1..Len(pos) : j # k => pos[j] # pos[k]) =>
            matching.out = [k \in 1..Len(first) |-> first[k][1]]
       /\ (\A j, k \in 1..Len(pos) : pos[j] = pos[k]) => matching.out = names
       /\ \A j, k \in 1..Len(pos) :
            (j < k /\ pos[j] = pos[k]) => \A n \in Range(all[j]) : times(n) >= 2

\* two different patterns that share a script, and one of them given again:
\* the script is listed for the first pattern and for the repetition
C32_Witness ==
  /\ matching.stage = "done"
  /\ matching.patterns = <<Pattern(FALSE, <<"t", "*">>), Pattern(FALSE, <<"*", "a">>),
                           Pattern(FALSE, <<"*", "a">>)>>
  /\ matching.out = <<<<"t", "a">>, <<"t", "b">>, <<"u", "a">>, <<"t", "a">>, <<"u", "a">>>>

\* ------------------------------------------------ layout of the summary
\* C33: the table has one row per result in input order, every column is as
\* wide as the longest of its header and cells, and all its lines have the
\* same visible length.
C33_TableLayout ==
  LET \* the pieces of a string between the occurrences of a separator
      Split(str, sep) ==
        LET at == {k \in 1..Len(str) : str[k] = sep}
            nth(j) == IF j = 0 THEN 0
                      ELSE IF j > Cardinality(at) THEN Len(str) + 1
                      ELSE CHOOSE k \in at : Cardinality({m \in at : m < k}) = j - 1
        IN [j \in 1..(Cardinality(at) + 1) |-> SubSeq(str, nth(j - 1) + 1, nth(j) - 1)]
      \* the lines written after the leading line break, without colour codes
      Rendered ==
        LET all == Split(printed.output, "\n")
        IN [k \in 1..(Len(all) - 1) |-> SelectSeq(all[k + 1], LAMBDA c : c \notin AnsiCodes)]
      \* the width a column must have: the longest of its header and cells
      WidthOf(i) ==
        Max({Len(headers[i])}
              \cup {Len(rows(printed.results)[k][i]) : k \in 1..Len(printed.results)})
      \* a line made of the given cells, each padded to the width of its
      \* column with one space on either side
      ShowsCells(line, cells) ==
        \A parts \in {Split(line, "|")} :
           /\ Len(parts) = Len(headers) + 2
           /\ parts[1] = <<>> /\ parts[Len(parts)] = <<>>
           /\ \A i \in 1..Len(headers) :
                /\ Len(parts[i + 1]) = WidthOf(i) + 2
                /\ SubSeq(parts[i + 1], 1, Len(cells[i]) + 1) = <<" ">> \o cells[i]
                /\ \A k \in (Len(cells[i]) + 2)..Len(parts[i + 1]) : parts[i + 1][k] = " "
  IN printed.stage = "written" =>
       \A lines \in {Rendered} :
          /\ Len(lines) = Len(printed.results) + 6
          /\ ShowsCells(lines[4], headers)
          /\ \A k \in 1..Len(printed.results) :
               ShowsCells(lines[5 + k], rows(printed.results)[k])
          /\ \A j, k \in 1..Len(lines) : Len(lines[j]) = Len(lines[k])

\* two results, one with a name and a time longer than their headers: the
\* table is wider than the headers alone make it (42 characters a line)
C33_Witness ==
  /\ printed.stage = "written"
  /\ Len(printed.results) = 2
  /\ printed.results[1].name = <<"a">> /\ printed.results[1].durationMs = 0
  /\ Len(printed.results[2].name) > Len(headers[1])
  /\ printed.results[2].code = Killed
  /\ Len(toFixed2(printed.results[2].durationMs)) > Len(headers[4])
  /\ Len(printed.output) > 8 * 43

\* ------------------------------------------------ what wins a race
\* C34: in race mode only a task that completes with exit code 0 triggers
\* the race abort: every call of abort() from the race branch belongs to a
\* task whose fulfilment handler ran with code 0 in the same step.
C34_OnlyZeroWinsRace ==
  [][raceAborts' - raceAborts <=
       Cardinality({i \in Idx : /\ ~Left(i) /\ Left(i)'
                                /\ pstate'[i] = "fulfilled" /\ results'[i].code = 0})]_vars

\* ------------------------------------------------ failures below the limit
\* C35: a failure of attempt k < retry is absorbed by the retry loop: the
\* group error is not set, abort() is not called, no sibling is killed and
\* nothing settles, the task starts its next attempt; an attempt loop runs
\* out only at attempt number retry.  The child of task i fails below the
\* limit when, running attempt k < retry unaborted, it is gone or replaced
\* after the step and none of the task's children has exited with 0.
C35_EarlyFailureAbsorbed ==
  [][/\ \A i \in Idx :
          (/\ pc = "run"
           /\ attempt[i] < options.retry
           /\ child[i].alive /\ ~child[i].wasAborted /\ outcome[i] = "awaiting"
           /\ ~child'[i].alive \/ spawned'[i] # spawned[i]
           /\ ~exitedZero'[i]) =>
            /\ error' = error
            /\ aborted' = aborted /\ abortCalls' = abortCalls
            /\ \A j \in Idx \ {i} : child'[j] = child[j]
            /\ settled' = settled
            /\ pstate'[i] = "pending" /\ results'[i].code = Undefined
            /\ attempt'[i] = attempt[i] + 1 /\ spawned'[i] = spawned[i] + 1
     /\ \A i \in Idx : outcome'[i] = "exhausted" => attempt'[i] = options.retry]_vars

\* a first attempt has failed and the second one runs beside a sibling
C35_Witness ==
  \E i, j \in Idx :
    /\ i # j
    /\ attempt[i] = 1 /\ spawned[i] = 2 /\ child[i].alive /\ outcome[i] = "awaiting"
    /\ child[j].alive /\ ~child[j].wasAborted
    /\ ~error.set /\ ~aborted /\ settled = "pending"

\* ------------------------------------------------------ order of the starts
\* C36: tasks start in input order: a task has started only if every task
\* before it has; when the start loop ends the first min(cap, n) tasks have
\* been started and no other; afterwards a task makes its first spawn only
\* in a step in which a task in flight completes, one start per completion
\* at most.
C36_StartsInInputOrder ==
  [][/\ \A i, j \in Idx : (i < j /\ spawned'[j] > 0) => spawned'[i] > 0
     /\ (pc = "start" /\ pc' = "run" /\ N > 0) =>
          \A i \in Idx : spawned'[i] = IF i <= (IF Cap < N THEN Cap ELSE N) THEN 1 ELSE 0
     /\ pc = "run" =>
          Cardinality({j \in Idx : spawned[j] = 0 /\ spawned'[j] > 0})
            <= Cardinality({i \in Idx : ~Left(i) /\ Left(i)'})]_vars

\* three tasks under a cap of two: the third one has started after one of
\* the first two completed, the other still running
C36_Witness ==
  /\ N = 3 /\ options.maxParallel = 2
  /\ pc = "run"
  /\ spawned[3] > 0 /\ child[3].alive
  /\ \E i \in {1, 2} : Left(i) /\ child[3 - i].alive
  /\ ~aborted

\* ------------------------------------------------ the abort handle of a task
\* C37: abort() of a task handle is idempotent: a child is tree-killed at
\* most once however often abort() is called, a second call changes nothing,
\* and a call made when the child has exited or failed to spawn changes
\* nothing at all, the code the attempt ended with included.
C37_HandleAbortIdempotent ==
  \A i \in Idx :
    /\ child[i].kills <= 1
    /\ childAbort(childAbort(Cur, i), i) = childAbort(Cur, i)
    /\ ~child[i].alive => childAbort(Cur, i) = Cur

\* a child killed once although abort() reached it again after it closed
\* (line 132), beside a task whose child had exited by itself with status 1
C37_Witness ==
  \E i, j \in Idx :
    /\ i # j
    /\ child[i].kills = 1 /\ ~child[i].alive /\ outcome[i] = "abortedAfterRun"
    /\ lastResult[i] = Killed
    /\ spawned[j] > 0 /\ ~child[j].alive /\ ~child[j].wasAborted /\ lastResult[j] = 1
    /\ abortCalls >= 1
\* ------------------------------------------------ the completion routine
\* C38: done() runs exactly once for a group: never twice, and once when
\* the group promise has settled, so that the summary of the group is
\* written once.
C38_DoneOnce ==
  /\ doneCount <= 1
  /\ (settled # "pending" /\ N > 0) => doneCount = 1

====
